---- MODULE Spec2Model ----
(***************************************************************************)
(* gocam: the capture session of StartStream on its three backends (V4L2,  *)
(* AVFoundation, Media Foundation), the one-slot frame channel between the *)
(* driver goroutine and its consumer, and CaptureSingleFrame.              *)
(*                                                                         *)
(* A frame is modelled by what the driver decides on: its dimensions, the  *)
(* length of its Data, whether it is a real or a synthesized black frame,  *)
(* and the order number of its creation (id).                              *)
(***************************************************************************)
EXTENDS Integers, Sequences, FiniteSets, TLC

\* ---------------------------------------------------------------- constants

cifWidth == 352

cifHeight == 288

dropThreshold == 30

chanCap == 1

\* ------------------------------------------------------------------- bounds

\* frames (real or black) a session creates before the model stops creating
MaxPush == 3

\* consecutive cycles without a real frame the model follows
MaxRun == 31

\* width and height of the raw frames whose normalization is followed pixel
\* by pixel
MaxW == 3

MaxH == 3

\* buffers a V4L2 driver grants to VIDIOC_REQBUFS
MaxBuffers == 3

\* raw frames the AVFoundation delegate receives while the holding buffer is
\* followed byte by byte
MaxRaw == 3

\* ------------------------------------------------------------------ sessions

\* The sessions explored: backend, negotiated pixel format, source size and
\* row stride in bytes as the backend declares them after a successful setup.
Sessions ==
    { [backend |-> "linux",   fmt |-> "YUYV",  w |-> 320, h |-> 240, stride |-> 640],
      [backend |-> "linux",   fmt |-> "NV12",  w |-> 640, h |-> 480, stride |-> 640],
      [backend |-> "linux",   fmt |-> "RGB24", w |-> 640, h |-> 240, stride |-> 1920],
      [backend |-> "macos",   fmt |-> "NV12",  w |-> 320, h |-> 240, stride |-> 320],
      [backend |-> "macos",   fmt |-> "NV12",  w |-> 640, h |-> 480, stride |-> 640],
      [backend |-> "macos",   fmt |-> "BGRA",  w |-> 300, h |-> 400, stride |-> 1200],
      [backend |-> "windows", fmt |-> "NV12",  w |-> 320, h |-> 240, stride |-> 320],
      [backend |-> "windows", fmt |-> "YUY2",  w |-> 640, h |-> 480, stride |-> 1280],
      [backend |-> "windows", fmt |-> "OTHER", w |-> 640, h |-> 240, stride |-> 640] }

NoFrame == [id |-> 0, kind |-> "none", w |-> 0, h |-> 0, len |-> 0]

Frame(i, k, width, height, n) ==
    [id |-> i, kind |-> k, w |-> width, h |-> height, len |-> n]

\* ------------------------------------------------------ output size (bounds)

\* V4L2: the logical output size computed once after setup (outW, outH).
linuxOutSize(width, height) ==
    IF width > cifWidth \/ height > cifHeight
    THEN <<cifWidth, cifHeight>>
    ELSE <<width, height>>

\* Mutant of winDstSize: the output is CIF whatever the source size.
winDstSizeAlwaysCif(width, height) == <<cifWidth, cifHeight>>

\* Media Foundation: gDstW/gDstH as StartCapture sets them from gW/gH.
winDstSize(width, height) ==
    IF width > cifWidth \/ height > cifHeight
    THEN <<cifWidth, cifHeight>>
    ELSE <<width, height>>

\* AVFoundation: gFrameWidth/gFrameHeight right after StartCapture, which
\* gives the globals (0 after StopCapture) the CIF default.
macDefaultSize == <<cifWidth, cifHeight>>

\* The output size a session knows right after setup.
InitialOutSize(c) ==
    CASE c.backend = "linux"   -> linuxOutSize(c.w, c.h)
      [] c.backend = "macos"   -> macDefaultSize
      [] c.backend = "windows" -> winDstSize(c.w, c.h)

\* Mutant of makeBlackLen: one byte per pixel instead of three.
makeBlackLenOneByte(width, height) ==
    IF width * height <= 0 THEN 0 ELSE width * height

\* makeBlack: the length of the synthesized buffer, 0 for nil.
makeBlackLen(width, height) ==
    IF width * height * 3 <= 0 THEN 0 ELSE width * height * 3

\* ------------------------------------------------- crop: double arithmetic

\* dstAspect = float64(352) / float64(288): the double nearest to 11/9, which
\* is (11 * 2^52 + dstAspectExcess) / (9 * 2^52).
dstAspectExcess == 4

\* The least power of two from p on that is at least n.
RECURSIVE pow2AtLeast(_, _)
pow2AtLeast(n, p) == IF p >= n THEN p ELSE pow2AtLeast(n, 2 * p)

\* int(float64(n) * dstAspect). dstAspect lies above 11/9 by less than one
\* part in 2^52, so the rounded product is never below n * 11 / 9 and the
\* truncation gives the floor of the exact product.
truncTimesAspect(n) == (n * cifWidth) \div cifHeight

\* int(float64(n) / dstAspect). The exact quotient lies below q = n * 9 / 11
\* by q * dstAspectExcess / (11 * 2^52); when q is an integer and that is
\* more than half the spacing of the doubles below q, the division rounds to
\* the double below q and the truncation gives q - 1.
truncOverAspect(n) ==
    LET q == (n * cifHeight) \div cifWidth
    IN  IF (n * cifHeight) % cifWidth = 0
           /\ 4 * dstAspectExcess * q > 11 * pow2AtLeast(q, 1)
        THEN q - 1
        ELSE q

\* srcAspect > dstAspect: the two quotients differ by far more than the
\* rounding of either, so the doubles compare as the fractions do.
widerThanDst(srcW, srcH) == srcW * cifHeight > cifWidth * srcH

\* Mutant of resampleCrop: the crop starts at the left or top edge.
resampleCropAtEdge(srcW, srcH) ==
    IF widerThanDst(srcW, srcH)
    THEN [x0 |-> 0, y0 |-> 0, w |-> truncTimesAspect(srcH), h |-> srcH]
    ELSE [x0 |-> 0, y0 |-> 0, w |-> srcW, h |-> truncOverAspect(srcW)]

\* resampleYCbCr444Fill(src, srcW, srcH, cifWidth, cifHeight): the centered
\* crop of a source that does not fit.
resampleCrop(srcW, srcH) ==
    IF widerThanDst(srcW, srcH)
    THEN LET c0 == truncTimesAspect(srcH)
             c1 == IF c0 > srcW THEN srcW ELSE c0
             cw == IF c1 < 1 THEN 1 ELSE c1
         IN  [x0 |-> (srcW - cw) \div 2, y0 |-> 0, w |-> cw, h |-> srcH]
    ELSE LET c0 == truncOverAspect(srcW)
             c1 == IF c0 > srcH THEN srcH ELSE c0
             ch == IF c1 < 1 THEN 1 ELSE c1
         IN  [x0 |-> 0, y0 |-> (srcH - ch) \div 2, w |-> srcW, h |-> ch]

\* resampleYCbCr444Fill: the source pixel <<sy, sx>> sampled for destination
\* (dy, dx), before (raw) and after the clamp to the source.
resampleSource(srcW, srcH, dy, dx) ==
    LET c   == resampleCrop(srcW, srcH)
        sy0 == c.y0 + ((dy * c.h) \div cifHeight)
        sx0 == c.x0 + ((dx * c.w) \div cifWidth)
    IN  [raw |-> <<sy0, sx0>>,
         at  |-> << IF sy0 >= srcH THEN srcH - 1 ELSE sy0,
                    IF sx0 >= srcW THEN srcW - 1 ELSE sx0 >>]

\* resampleYCbCr444Fill: the offsets into src copied to destination pixel
\* (dy, dx), << >> when the index check skips the pixel (continue).
resampleOffsets(srcLen, srcW, srcH, dy, dx) ==
    LET s        == resampleSource(srcW, srcH, dy, dx).at
        srcIndex == (s[1] * srcW + s[2]) * 3
        dstIndex == (dy * cifWidth + dx) * 3
    IN  IF srcIndex + 2 >= srcLen \/ dstIndex + 2 >= cifWidth * cifHeight * 3
        THEN << >>
        ELSE <<srcIndex, srcIndex + 1, srcIndex + 2>>

\* ----------------------------------------------------- V4L2 normalization

\* The row-organised formats of convertFrame (YUV24, YUYV, RGB24): TRUE when
\* the conversion returns a buffer, FALSE when it returns nil.
rowsConvertible(srcLen, rowBytes, height, stride) ==
    LET es0    == IF stride <= 0 THEN rowBytes ELSE stride
        shrink == height > 0 /\ es0 * height > srcLen
        es     == IF shrink THEN srcLen \div height ELSE es0
    IN  /\ rowBytes > 0
        /\ srcLen >= rowBytes
        /\ ~(shrink /\ es < rowBytes)
        /\ \A y \in 0..(height - 1) : y * es + rowBytes <= srcLen

\* The NV12 branch of convertFrame: TRUE when it returns a buffer.
nv12Convertible(srcLen, width, height, stride) ==
    LET es0        == IF stride <= 0 THEN width ELSE stride
        totalLines == height + (height \div 2)
        shrink     == es0 * totalLines > srcLen
        es         == IF shrink THEN srcLen \div totalLines ELSE es0
        yPlaneSize == es * height
        uvLen      == srcLen - yPlaneSize
    IN  /\ width > 0
        /\ srcLen >= width
        /\ ~(shrink /\ es < width)
        /\ yPlaneSize <= srcLen
        /\ \A y \in 0..(height - 1) : \A x \in 0..(width - 1) :
              /\ y * es + x < yPlaneSize
              /\ (y \div 2) * es + (x \div 2) * 2 + 1 < uvLen

\* convertFrame: the length of the returned buffer, 0 for nil.
convertFrameLen(srcLen, pixFmt, width, height, stride) ==
    IF width <= 0 \/ height <= 0 \/ width * height * 3 <= 0 THEN 0
    ELSE LET dstSize == width * height * 3 IN
         CASE pixFmt = "YUV24" ->
                IF rowsConvertible(srcLen, width * 3, height, stride) THEN dstSize ELSE 0
           [] pixFmt = "NV12" ->
                IF nv12Convertible(srcLen, width, height, stride) THEN dstSize ELSE 0
           [] pixFmt = "YUYV" ->
                IF rowsConvertible(srcLen, width * 2, height, stride) THEN dstSize ELSE 0
           [] pixFmt = "RGB24" ->
                IF rowsConvertible(srcLen, width * 3, height, stride) THEN dstSize ELSE 0
           [] OTHER -> 0

\* resampleYCbCr444Fill: the length of the returned buffer, 0 for nil.
resampleLen(srcLen, srcW, srcH, dstW, dstH) ==
    IF srcW <= 0 \/ srcH <= 0 \/ dstW <= 0 \/ dstH <= 0 THEN 0
    ELSE IF srcLen < srcW * srcH * 3 THEN 0
    ELSE IF srcW <= dstW /\ srcH <= dstH THEN srcLen
    ELSE dstW * dstH * 3

\* Length of a mapped V4L2 buffer holding one whole frame of session c.
mappedLen(c) ==
    IF c.fmt = "NV12" THEN c.stride * (c.h + (c.h \div 2)) ELSE c.stride * c.h

\* buf.Bytesused values the driver may report for a dequeued buffer.
bytesUsedInputs(c) == {0, mappedLen(c) - 1, mappedLen(c)}

\* The slice src := data[:sz] of the driver loop: its length.
srcLenOf(used, dataLen) ==
    IF used <= 0 \/ used > dataLen THEN dataLen ELSE used

\* convertFrame evaluated once per session and source length.
convertTable ==
    [c \in {s \in Sessions : s.backend = "linux"} |->
        [n \in {srcLenOf(u, mappedLen(c)) : u \in bytesUsedInputs(c)} |->
            convertFrameLen(n, c.fmt, c.w, c.h, c.stride)]]

\* --------------------------------------------------- Media Foundation fetch

\* Sample lengths IMFMediaBuffer::Lock may report for session c.
winNeeded(c) ==
    LET yStride == IF c.stride <= 0 THEN c.w ELSE c.stride
        uvStride == yStride
    IN  IF c.fmt = "NV12"
        THEN yStride * c.h + uvStride * (c.h \div 2)
        ELSE yStride * c.h

winSampleLens(c) == {winNeeded(c) - 1, winNeeded(c)}

\* GetFrame on Media Foundation: gReady after the format branch.
winReady(c, len) ==
    IF c.fmt \in {"NV12", "YUY2", "UYVY", "RGB32", "RGB24"}
    THEN len >= winNeeded(c)
    ELSE TRUE

\* -------------------------------------------------------- AVFoundation fetch

\* The delegate's destination size for a sample buffer of size w x h.
delegateDstSize(width, height) ==
    IF width > cifWidth \/ height > cifHeight
    THEN <<cifWidth, cifHeight>>
    ELSE <<width, height>>

\* C.GoBytes(cbuf, size): the length of the copy.
goBytesLen(size) == size

\* ------------------------------------------------ pixel-level normalization

\* The byte at offset i (from 0) of buffer b.
byteAt(b, i) == b[i + 1]

\* Mutant of shr8: division by 256 that truncates toward zero.
shr8TowardZero(v) == IF v < 0 THEN -((-v) \div 256) ELSE v \div 256

\* v >> 8 on a signed int (arithmetic shift).
shr8(v) == v \div 256

\* clampToByte
clampToByte(v) == IF v < 0 THEN 0 ELSE IF v > 255 THEN 255 ELSE v

\* Mutant of rgbToYCbCr: the rounding term 128 is left out.
rgbToYCbCrNoRounding(R, G, B) ==
    << clampToByte(shr8(66 * R + 129 * G + 25 * B) + 16),
       clampToByte(shr8(-38 * R - 74 * G + 112 * B) + 128),
       clampToByte(shr8(112 * R - 94 * G - 18 * B) + 128) >>

\* convertFrame, RGB24 branch: one pixel from R, G, B.
rgbToYCbCr(R, G, B) ==
    << clampToByte(shr8(66 * R + 129 * G + 25 * B + 128) + 16),
       clampToByte(shr8(-38 * R - 74 * G + 112 * B + 128) + 128),
       clampToByte(shr8(112 * R - 94 * G - 18 * B + 128) + 128) >>

\* convertFrame: effectiveStride after the adjustment to a short buffer;
\* lines is height (height + height/2 for NV12).
effectiveStrideOf(srcLen, rowBytes, lines, stride) ==
    LET es0 == IF stride <= 0 THEN rowBytes ELSE stride
    IN  IF lines > 0 /\ es0 * lines > srcLen THEN srcLen \div lines ELSE es0

\* Bytes of a source row a pixel format uses for width pixels.
rowBytesOf(pixFmt, width) ==
    CASE pixFmt = "YUV24" -> width * 3
      [] pixFmt = "NV12"  -> width
      [] pixFmt = "YUYV"  -> width * 2
      [] pixFmt = "RGB24" -> width * 3
      [] OTHER -> 0

\* Lines of effectiveStride bytes a frame of the format spans.
linesOf(pixFmt, height) ==
    IF pixFmt = "NV12" THEN height + (height \div 2) ELSE height

\* convertFrame: the offsets into src read for destination pixel (y, x), in
\* the order Y (or R), Cb/U (or G), Cr/V (or B); << >> when the loop leaves
\* the pixel unwritten (the break of the YUYV branch).
convertOffsets(srcLen, pixFmt, width, height, stride, y, x) ==
    LET es == effectiveStrideOf(srcLen, rowBytesOf(pixFmt, width),
                                linesOf(pixFmt, height), stride)
    IN  CASE pixFmt = "NV12" ->
               LET yPlaneSize == es * height
                   uvIdx      == (y \div 2) * es + (x \div 2) * 2
               IN  << y * es + x, yPlaneSize + uvIdx, yPlaneSize + uvIdx + 1 >>
          [] pixFmt = "YUYV" ->
               LET si == (x - (x % 2)) * 2
                   o  == y * es + si
               IN  IF si + 3 >= width * 2 THEN << >>
                   ELSE << IF x % 2 = 0 THEN o ELSE o + 2, o + 1, o + 3 >>
          [] OTHER ->
               LET o == y * es + x * 3 IN << o, o + 1, o + 2 >>

\* convertFrame: destination pixel (y, x) of a successful conversion; dst is
\* zero-filled by make, so an unwritten pixel is (0, 0, 0).
convertPixel(src, pixFmt, width, height, stride, y, x) ==
    LET o == convertOffsets(Len(src), pixFmt, width, height, stride, y, x)
    IN  IF o = << >> THEN <<0, 0, 0>>
        ELSE IF pixFmt = "RGB24"
             THEN rgbToYCbCr(byteAt(src, o[1]), byteAt(src, o[2]), byteAt(src, o[3]))
             ELSE <<byteAt(src, o[1]), byteAt(src, o[2]), byteAt(src, o[3])>>

\* The pixel coordinates of a width x height frame, as <<row, column>>.
Pixels(width, height) == (0..(height - 1)) \X (0..(width - 1))

\* convertFrame: the result for a source buffer: whether a frame is returned
\* (ok), the source offsets read (on success), and the frame's pixels.
convertFrame(src, pixFmt, width, height, stride) ==
    IF convertFrameLen(Len(src), pixFmt, width, height, stride) = 0
    THEN [ok |-> FALSE, fault |-> FALSE, reads |-> {}, w |-> 0, h |-> 0, px |-> << >>]
    ELSE [ok    |-> TRUE,
          fault |-> FALSE,
          reads |-> UNION { LET o == convertOffsets(Len(src), pixFmt, width, height,
                                                    stride, p[1], p[2])
                            IN  {o[i] : i \in 1..Len(o)} : p \in Pixels(width, height) },
          w     |-> width,
          h     |-> height,
          px    |-> [p \in Pixels(width, height) |->
                        convertPixel(src, pixFmt, width, height, stride, p[1], p[2])]]

\* ---------------------------------------- Media Foundation: GetFrame, pixels

\* GetFrame: one pixel of the RGB32 and RGB24 branches from R, G, B.
winRgbToYCbCr(R, G, B) ==
    LET Y0  == shr8(66 * R + 129 * G + 25 * B + 128) + 16
        Cb0 == shr8(-38 * R - 74 * G + 112 * B + 128) + 128
        Cr0 == shr8(112 * R - 94 * G - 18 * B + 128) + 128
        clamp(v) == IF v < 0 THEN 0 ELSE IF v > 255 THEN 255 ELSE v
    IN  << clamp(Y0), clamp(Cb0), clamp(Cr0) >>

\* gStrideY as gcam_set_format_info and GetFrame settle it: the media type's
\* MF_MT_DEFAULT_STRIDE, or the width in pixels when the attribute is missing
\* or 0 (stride = 0 here).
winStrideY(srcW, stride) == IF stride <= 0 THEN srcW ELSE stride

\* GetFrame: the centered crop of the source; gDstW x gDstH is CIF whenever
\* it is smaller than the source on an axis.
winCrop(srcW, srcH, dstW, dstH) ==
    IF dstW < srcW \/ dstH < srcH
    THEN IF widerThanDst(srcW, srcH)
         THEN LET c0 == truncTimesAspect(srcH)
                  c1 == IF c0 > srcW THEN srcW ELSE c0
                  cw == IF c1 < 1 THEN 1 ELSE c1
              IN  [x0 |-> (srcW - cw) \div 2, y0 |-> 0, w |-> cw, h |-> srcH]
         ELSE LET c0 == truncOverAspect(srcW)
                  c1 == IF c0 > srcH THEN srcH ELSE c0
                  ch == IF c1 < 1 THEN 1 ELSE c1
              IN  [x0 |-> 0, y0 |-> (srcH - ch) \div 2, w |-> srcW, h |-> ch]
    ELSE [x0 |-> 0, y0 |-> 0, w |-> srcW, h |-> srcH]

\* GetFrame: the source pixel <<sy, sx>> sampled for destination (dy, dx).
winSourcePixel(srcW, srcH, dstW, dstH, dy, dx) ==
    LET c   == winCrop(srcW, srcH, dstW, dstH)
        sy0 == c.y0 + ((dy * c.h) \div dstH)
        sx0 == c.x0 + ((dx * c.w) \div dstW)
    IN  << IF sy0 >= srcH THEN srcH - 1 ELSE sy0,
           IF sx0 >= srcW THEN srcW - 1 ELSE sx0 >>

\* GetFrame: the length the format branch requires of the sample
\* (totalNeeded, minNeeded).
winMinNeeded(pixFmt, srcW, srcH, stride) ==
    LET yStride == winStrideY(srcW, stride)
    IN  IF pixFmt = "NV12"
        THEN yStride * srcH + yStride * (srcH \div 2)
        ELSE yStride * srcH

\* GetFrame: for source pixel (sy, sx), the offsets into data that are read
\* (reads) and the three of them that make the pixel (use, in the order
\* Y/R, Cb/U/G, Cr/V/B); use is << >> when the pixel is skipped (continue).
winOffsets(pixFmt, srcW, srcH, stride, sy, sx) ==
    LET yStride == winStrideY(srcW, stride)
        row     == sy * yStride
    IN  CASE pixFmt = "NV12" ->
               LET yPlaneSize  == yStride * srcH
                   uvPlaneSize == yStride * (srcH \div 2)
                   uvIdx       == (sy \div 2) * yStride + (sx \div 2) * 2
               IN  IF uvIdx + 1 >= uvPlaneSize
                   THEN [reads |-> {row + sx}, use |-> << >>]
                   ELSE [reads |-> {row + sx, yPlaneSize + uvIdx, yPlaneSize + uvIdx + 1},
                         use   |-> <<row + sx, yPlaneSize + uvIdx, yPlaneSize + uvIdx + 1>>]
          [] pixFmt = "YUY2" ->
               LET p == row + (sx \div 2) * 4
               IN  [reads |-> {p, p + 1, p + 2, p + 3},
                    use   |-> <<IF sx % 2 = 0 THEN p ELSE p + 2, p + 1, p + 3>>]
          [] pixFmt = "UYVY" ->
               LET p == row + (sx \div 2) * 4
               IN  [reads |-> {p, p + 1, p + 2, p + 3},
                    use   |-> <<IF sx % 2 = 0 THEN p + 1 ELSE p + 3, p, p + 2>>]
          [] pixFmt = "RGB32" ->
               LET p == row + sx * 4
               IN  [reads |-> {p, p + 1, p + 2}, use |-> <<p + 2, p + 1, p>>]
          [] pixFmt = "RGB24" ->
               LET p == row + sx * 3
               IN  [reads |-> {p, p + 1, p + 2}, use |-> <<p + 2, p + 1, p>>]

\* A read of data at offset o: the byte of the sample, or, beyond its length,
\* whatever the memory there holds (g).
winByte(src, o, g) == IF o < Len(src) THEN byteAt(src, o) ELSE g

\* GetFrame: destination pixel (dy, dx) of gBuf after a format branch that
\* found the sample long enough; a skipped pixel keeps what gBuf held (g).
winPixel(src, pixFmt, srcW, srcH, stride, dstW, dstH, dy, dx, g) ==
    LET s == winSourcePixel(srcW, srcH, dstW, dstH, dy, dx)
        o == winOffsets(pixFmt, srcW, srcH, stride, s[1], s[2])
    IN  IF o.use = << >> THEN <<g, g, g>>
        ELSE IF pixFmt \in {"RGB32", "RGB24"}
             THEN winRgbToYCbCr(winByte(src, o.use[1], g), winByte(src, o.use[2], g),
                                winByte(src, o.use[3], g))
             ELSE <<winByte(src, o.use[1], g), winByte(src, o.use[2], g),
                    winByte(src, o.use[3], g)>>

\* GetFrame for a locked sample src: whether a frame is returned (ok), the
\* offsets of data read, and the pixels of gBuf.
winGetFrame(src, pixFmt, srcW, srcH, stride, g) ==
    LET d == winDstSize(srcW, srcH)
    IN  IF pixFmt \notin {"NV12", "YUY2", "UYVY", "RGB32", "RGB24"}
        THEN [ok |-> TRUE, fault |-> FALSE, reads |-> {}, w |-> d[1], h |-> d[2],
              px |-> [p \in Pixels(d[1], d[2]) |-> <<16, 128, 128>>]]
        ELSE IF Len(src) < winMinNeeded(pixFmt, srcW, srcH, stride)
        THEN [ok |-> FALSE, fault |-> FALSE, reads |-> {}, w |-> 0, h |-> 0, px |-> << >>]
        ELSE [ok    |-> TRUE,
          fault |-> FALSE,
              reads |-> UNION { LET s == winSourcePixel(srcW, srcH, d[1], d[2], p[1], p[2])
                                IN  winOffsets(pixFmt, srcW, srcH, stride, s[1], s[2]).reads
                                : p \in Pixels(d[1], d[2]) },
              w     |-> d[1],
              h     |-> d[2],
              px    |-> [p \in Pixels(d[1], d[2]) |->
                            winPixel(src, pixFmt, srcW, srcH, stride, d[1], d[2],
                                     p[1], p[2], g)]]

\* ------------------------------------------ AVFoundation: delegate, pixels

\* clampByte
clampByte(v) == IF v < 0 THEN 0 ELSE IF v > 255 THEN 255 ELSE v

\* captureOutput, 32BGRA branch: one pixel from R, G, B.
macRgbToYCbCr(R, G, B) ==
    << clampByte(shr8(66 * R + 129 * G + 25 * B + 128) + 16),
       clampByte(shr8(-38 * R - 74 * G + 112 * B + 128) + 128),
       clampByte(shr8(112 * R - 94 * G - 18 * B + 128) + 128) >>

\* captureOutput: the crop of a source larger than CIF.
macCrop(width, height) ==
    IF width > cifWidth \/ height > cifHeight
    THEN IF widerThanDst(width, height)
         THEN LET c0 == truncTimesAspect(height)
                  cw == IF c0 > width THEN width ELSE c0
              IN  [x0 |-> IF width > cw THEN (width - cw) \div 2 ELSE 0, y0 |-> 0,
                   w |-> cw, h |-> height]
         ELSE LET c0 == truncOverAspect(width)
                  ch == IF c0 > height THEN height ELSE c0
              IN  [x0 |-> 0, y0 |-> IF height > ch THEN (height - ch) \div 2 ELSE 0,
                   w |-> width, h |-> ch]
    ELSE [x0 |-> 0, y0 |-> 0, w |-> width, h |-> height]

\* captureOutput: the source pixel <<sy, sx>> sampled for destination (dy, dx).
macSourcePixel(width, height, dy, dx) ==
    LET c   == macCrop(width, height)
        d   == delegateDstSize(width, height)
        sy0 == c.y0 + ((dy * c.h) \div d[2])
        sx0 == c.x0 + ((dx * c.w) \div d[1])
    IN  << IF sy0 >= height THEN height - 1 ELSE sy0,
           IF sx0 >= width THEN width - 1 ELSE sx0 >>

\* captureOutput: destination pixel (dy, dx) of gFrameBuf; plane0 and plane1
\* are the pixel buffer's planes with their bytes per row.
macPixel(plane0, stride0, plane1, stride1, pixFmt, width, height, dy, dx) ==
    LET s  == macSourcePixel(width, height, dy, dx)
        sy == s[1]
        sx == s[2]
    IN  IF pixFmt = "NV12"
        THEN LET uvx == (sx \div 2) * 2
             IN  << byteAt(plane0, sy * stride0 + sx),
                    byteAt(plane1, (sy \div 2) * stride1 + uvx),
                    byteAt(plane1, (sy \div 2) * stride1 + uvx + 1) >>
        ELSE LET si == sy * stride0 + sx * 4
             IN  macRgbToYCbCr(byteAt(plane0, si + 2), byteAt(plane0, si + 1),
                               byteAt(plane0, si))

\* captureOutput for one sample buffer: whether gFrameBuf was written (ok:
\* gFrameReady = 1) and its pixels; a buffer of another format is ignored.
macDelegate(plane0, stride0, plane1, stride1, pixFmt, width, height) ==
    LET d == delegateDstSize(width, height)
    IN  IF pixFmt \notin {"NV12", "BGRA"} \/ stride0 = 0
           \/ (pixFmt = "NV12" /\ stride1 = 0)
        THEN [ok |-> FALSE, fault |-> FALSE, reads |-> {}, w |-> 0, h |-> 0, px |-> << >>]
        ELSE [ok    |-> TRUE,
          fault |-> FALSE,
              reads |-> {},
              w     |-> d[1],
              h     |-> d[2],
              px    |-> [p \in Pixels(d[1], d[2]) |->
                            macPixel(plane0, stride0, plane1, stride1, pixFmt,
                                     width, height, p[1], p[2])]]

\* ------------------------------------------------------- conversion inputs

\* A buffer of n bytes in which the byte at offset i holds i + 1.
PosBytes(n) == [i \in 1..n |-> i]

\* One raw frame handed to a backend's normalization: the declared format,
\* size and stride, the buffer (plane 0), for the biplanar AVFoundation
\* buffer its plane 1, and for a single colour pixel its <<R, G, B>>.
Job(b, f, width, height, s, buf, buf1, s1, colour) ==
    [backend |-> b, fmt |-> f, w |-> width, h |-> height, stride |-> s,
     src |-> buf, plane1 |-> buf1, stride1 |-> s1, rgb |-> colour]

NoJob == Job("none", "none", 0, 0, 0, << >>, << >>, 0, << >>)

NoRes == [ok |-> FALSE, fault |-> FALSE, reads |-> {}, w |-> -1, h |-> -1, px |-> << >>]

\* Bytes of a row that hold its width pixels.
pixelRowBytes(f, width) ==
    CASE f \in {"YUYV", "YUY2", "UYVY"} -> width * 2
      [] f = "NV12"                     -> width
      [] f \in {"RGB32", "BGRA"}        -> width * 4
      [] OTHER                          -> width * 3

\* Bytes of a row made of whole units of the format (4:2:2 rows hold whole
\* two-pixel groups, 4:2:0 chroma rows whole Cb/Cr pairs).
formatRowBytes(f, width) ==
    CASE f \in {"YUYV", "YUY2", "UYVY"} -> ((width + 1) \div 2) * 4
      [] f = "NV12"                     -> ((width + 1) \div 2) * 2
      [] OTHER                          -> pixelRowBytes(f, width)

\* Rows of stride bytes a buffer of the format holds (4:2:0: the luma rows
\* and one chroma row for every two of them, the odd last one included).
formatRows(f, height) ==
    IF f = "NV12" THEN height + ((height + 1) \div 2) ELSE height

\* The row distance a declaration of stride s (0: none) stands for.
declaredStride(f, width, s) == IF s > 0 THEN s ELSE pixelRowBytes(f, width)

\* The least length a buffer can have with all rows of a width x height
\* frame in it, rows being s bytes apart.
requiredLen(f, width, height, s) == s * (formatRows(f, height) - 1) + pixelRowBytes(f, width)

\* The length of a buffer that holds every row in full.
completeLen(f, width, height, s) ==
    s * formatRows(f, height) + (formatRowBytes(f, width) - pixelRowBytes(f, width))

LinuxFormats == {"YUV24", "NV12", "YUYV", "RGB24"}

WinFormats == {"NV12", "YUY2", "UYVY", "RGB32", "RGB24"}

\* Strides a V4L2 driver declares for the format: none, tight, padded.
linuxStrides(f, width) == {0, pixelRowBytes(f, width), pixelRowBytes(f, width) + 2}

\* Buffer lengths explored for a V4L2 frame: what convertFrame's own
\* arithmetic takes for complete, one byte less than the declaration
\* requires, exactly that, and a complete buffer.
linuxLens(f, width, height, s) ==
    LET ds   == declaredStride(f, width, s)
        need == requiredLen(f, width, height, ds)
    IN  {rowBytesOf(f, width) * linesOf(f, height), need - 1, need,
         completeLen(f, width, height, ds)}

\* V4L2: frames of up to MaxW x MaxH pixels in buffers that are complete or
\* cut short.
LinuxJobs ==
    UNION { { Job("linux", t[1], t[2], t[3], t[4], PosBytes(n), << >>, 0, << >>) :
                n \in linuxLens(t[1], t[2], t[3], t[4]) } :
            t \in { u \in LinuxFormats \X (1..MaxW) \X (1..MaxH) \X (0..(3 * MaxW + 2)) :
                       u[4] \in linuxStrides(u[1], u[2]) } }

\* Default strides a media type declares: none (0) or the bytes of a row.
winStrides(f, width) == {0, pixelRowBytes(f, width), formatRowBytes(f, width)}

\* Sample lengths explored for a Media Foundation frame (a locked sample is
\* never empty).
winLens(f, width, height, s) ==
    LET ds   == declaredStride(f, width, s)
        need == requiredLen(f, width, height, ds)
    IN  {n \in {winMinNeeded(f, width, height, s), need - 1, need,
                completeLen(f, width, height, ds)} : n >= 1}

\* Media Foundation: frames of up to MaxW x MaxH pixels, one format outside
\* the supported set included.
WinJobs ==
    UNION { { Job("windows", t[1], t[2], t[3], t[4], PosBytes(n), << >>, 0, << >>) :
                n \in winLens(t[1], t[2], t[3], t[4]) } :
            t \in { u \in (WinFormats \cup {"OTHER"}) \X (1..MaxW) \X (1..MaxH)
                          \X (0..(4 * MaxW + 2)) :
                       u[4] \in winStrides(u[1], u[2]) } }

\* AVFoundation: biplanar pixel buffers, planes complete, rows tight or padded.
MacJobs ==
    { Job("macos", "NV12", width, height, s, PosBytes(s * height),
          [i \in 1..(s1 * ((height + 1) \div 2)) |-> 100 + i], s1, << >>) :
        <<width, height, s, s1>> \in
          { t \in (1..MaxW) \X (1..MaxH) \X (1..(MaxW + 2)) \X (1..(MaxW + 3)) :
              /\ t[3] \in {t[1], t[1] + 2}
              /\ t[4] \in {formatRowBytes("NV12", t[1]), formatRowBytes("NV12", t[1]) + 2} } }

\* The 4x2 biplanar buffer of the documented example: 8 luma bytes followed
\* by the chroma bytes 100, 150.
ExampleNV12 == <<10, 20, 30, 40, 50, 60, 70, 80, 100, 150>>

\* The example buffer as a V4L2 buffer and as a Media Foundation sample.
ExampleJobs ==
    { Job(b, "NV12", 4, 2, s, ExampleNV12, << >>, 0, << >>) :
        <<b, s>> \in {"linux", "windows"} \X {0, 4} }

\* Byte values the colour conversions are explored on.
ByteSamples == {0, 1, 16, 127, 128, 200, 254, 255}

\* One colour pixel in each packed-colour format, in the format's byte order
\* (the 32-bit formats with both extremes of the fourth byte).
ColourJobs ==
    UNION { { Job("linux",   "RGB24", 1, 1, 3, <<c[1], c[2], c[3]>>, << >>, 0, c),
              Job("windows", "RGB24", 1, 1, 3, <<c[3], c[2], c[1]>>, << >>, 0, c),
              Job("windows", "RGB32", 1, 1, 4, <<c[3], c[2], c[1], 0>>, << >>, 0, c),
              Job("windows", "RGB32", 1, 1, 4, <<c[3], c[2], c[1], 255>>, << >>, 0, c),
              Job("macos",   "BGRA",  1, 1, 4, <<c[3], c[2], c[1], 0>>, << >>, 0, c),
              Job("macos",   "BGRA",  1, 1, 4, <<c[3], c[2], c[1], 255>>, << >>, 0, c) } :
            c \in ByteSamples \X ByteSamples \X ByteSamples }

Jobs == LinuxJobs \cup WinJobs \cup MacJobs \cup ExampleJobs \cup ColourJobs

\* What memory beyond a buffer, or a never written byte of gBuf, may hold.
Garbage == {0, 255}

\* ------------------------------------------------------------- session setup

\* What StartStream acquires while it sets a backend up, by kind: V4L2: the
\* device descriptor, the mapped buffers, the running stream; Media Foundation: COM,
\* the platform, the critical section, the COM objects; AVFoundation: the
\* objects of StartCapture, held by its locals or by the globals.
Resources ==
    {"fd", "mmap", "streaming"}
    \cup {"com", "mf", "criticalSection", "attr", "devices", "source", "reader", "type"}
    \cup {"gLock", "input", "session", "output", "gDelegate", "gQueue"}

\* The pixel formats StartStream asks a V4L2 driver for, in order.
fmtChain == <<"YUV24", "NV12", "YUYV", "RGB24">>

\* The formats a backend's normalization supports.
supportedFormats(b) ==
    CASE b = "linux"   -> {"YUV24", "NV12", "YUYV", "RGB24"}
      [] b = "windows" -> {"NV12", "YUY2", "UYVY", "RGB32", "RGB24"}
      [] b = "macos"   -> {"NV12", "YUV444", "BGRA"}

\* A call of StartStream that has not begun: the backend, the format the
\* device delivers whatever is asked for (native), the buffers the V4L2
\* driver grants, and the caller.
SetupStart(b, f, n, caller) ==
    [backend |-> b, native |-> f, granted |-> n, via |-> caller,
     step |-> "call", idx |-> 0,
     acq |-> [r \in Resources |-> 0], freed |-> [r \in Resources |-> 0], held |-> {},
     ret |-> "none", cause |-> "none", chan |-> FALSE, driver |-> FALSE, calls |-> 0]

NoSetup == SetupStart("none", "none", 0, "none")

acquire(s, rs) ==
    [s EXCEPT !.acq = [r \in Resources |-> IF r \in rs THEN @[r] + 1 ELSE @[r]],
              !.held = @ \cup rs]

\* Every held instance of the kinds rs is released; a kind of which nothing
\* is held is released all the same.
release(s, rs) ==
    [s EXCEPT !.freed = [r \in Resources |->
                            IF r \notin rs THEN @[r]
                            ELSE IF s.acq[r] > @[r] THEN s.acq[r] ELSE @[r] + 1],
              !.held = @ \ rs]

\* return nil, err after the resources rs were released; why is "os" for a
\* failed system call and "format" for the unsupported pixel format.
failed(s, rs, why) ==
    [release(s, rs) EXCEPT !.step = "returned", !.ret = "error", !.cause = why]

\* return frames, nil: the channel is made and the driver goroutine started.
started(s) ==
    [s EXCEPT !.step = "returned", !.ret = "ok", !.chan = TRUE, !.driver = TRUE]

\* cleanup(): VIDIOC_STREAMOFF if streamStarted, Munmap of every mapped
\* buffer, Close(fd): the resources it releases.
linuxCleanup(s) ==
    {r \in {"streaming", "mmap"} : r \in s.held} \cup {"fd"}

\* The fail: label of StartCapture (Media Foundation): the resources it
\* releases.
winFail(s) ==
    {r \in {"reader", "devices", "attr"} : r \in s.held} \cup {"mf", "com"}

\* A return of StartCapture (AVFoundation) with an error: the locals go out
\* of scope (ARC), the globals keep what they were given.
macFail(s) == {r \in {"input", "session", "output"} : r \in s.held}

\* --------------------------------------- AVFoundation: the holding buffer

\* The output sizes of the raw frames the delegate receives.
HoldSizes == {<<1, 1>>, <<2, 1>>}

\* gFrameBuf and what the driver does with it. Every byte of the buffer
\* carries the number of the raw frame the delegate wrote it from. gen counts
\* the allocations of gFrameBuf; cbuf is the allocation GetFrame handed out.
\* ret is what GetFrame returned last, got the raw frame the buffer held
\* then, prev and last the same and the raw frames of the copied bytes for
\* the fetch before.
HoldStart ==
    [buf |-> << >>, w |-> 0, h |-> 0, ready |-> FALSE, gen |-> 0, raw |-> 0,
     pc |-> "GetFrame", cbuf |-> 0, size |-> 0, data |-> << >>, fault |-> FALSE,
     ret |-> 0, got |-> 0, prev |-> 0, last |-> {}]

NoHold == [HoldStart EXCEPT !.pc = "none"]

\* ------------------------------------------------ downsampling: the inputs

\* Source sizes that exceed CIF on an axis.
CropSizes ==
    { <<640, 480>>, <<641, 481>>, <<704, 576>>, <<440, 400>>, <<1280, 720>>,
      <<1920, 1080>>, <<353, 288>>, <<352, 289>>, <<354, 290>>, <<640, 241>>,
      <<640, 240>>, <<300, 400>>, <<1, 289>>, <<353, 1>> }

\* The destination rows whose pixels are followed.
SampleRows == {0, 1, 143, 144, 286, 287}

\* A source frame about to be downsampled: by resampleYCbCr444Fill after
\* convertFrame (V4L2, format "444"), by GetFrame or by captureOutput; the
\* row stride is the format's bytes per row.
CropStart(b, f, size) ==
    [backend |-> b, fmt |-> f, w |-> size[1], h |-> size[2], step |-> "source",
     rect |-> [x0 |-> 0, y0 |-> 0, w |-> 0, h |-> 0], dy |-> 0, row |-> << >>]

NoCrop == CropStart("none", "none", <<0, 0>>)

\* --------------------------------------------------------------------- state

VARIABLES
    cfg,        \* the session: backend, format, source size, stride
    mode,       \* "stream": a caller of StartStream; "single": CaptureSingleFrame
    pc,         \* position of the driver goroutine
    cancelled,  \* ctx.Done() is closed
    misses,     \* the driver's misses counter
    cur,        \* the frame handed to sendFrame
    slot,       \* the buffer of the frames channel
    closed,     \* the frames channel is closed
    released,   \* executions of cleanup / StopCapture
    outW,       \* last known output width (outW, gFrameWidth, gDstW)
    outH,       \* last known output height (outH, gFrameHeight, gDstH)
    hasBuf,     \* gFrameBuf is allocated (AVFoundation)
    ready,      \* gFrameReady (AVFoundation)
    pushed,     \* frames created so far; the next frame gets id pushed + 1
    lastRecv,   \* the frame the consumer received last
    eos,        \* the consumer has seen the channel closed and empty
    csf,        \* CaptureSingleFrame: "off", "waiting" or how it returned
    run,        \* consecutive driver cycles that pushed no real frame
    sent,       \* id of the last frame whose sendFrame returned
    dropped,    \* ids of the frames the driver took back out of the channel
    blackRun,   \* a black frame was handed to sendFrame in the current run
    afterCancel,  \* fetches and sends of the driver since ctx.Done() was closed
    job,        \* the raw frame under normalization (normalization of single frames)
    res,        \* what its normalization returned
    setup,      \* a call of StartStream until it returns (session setup)
    hold,       \* gFrameBuf and the driver's copy of it (AVFoundation holding buffer)
    crop        \* a source frame under downsampling: its crop and one remapped row

sessionVars == <<cfg, mode, pc, cancelled, misses, cur, slot, closed, released, outW,
                 outH, hasBuf, ready, pushed, lastRecv, eos, csf, run, sent, dropped,
                 blackRun, afterCancel>>

auxVars == <<job, res, setup, hold, crop>>

vars == <<sessionVars, auxVars>>

backendVars == <<outW, outH, hasBuf, ready>>

consumerVars == <<lastRecv, eos, csf>>

\* Init: StartStream has returned the channel and started the driver goroutine.
Init ==
    /\ cfg \in Sessions
    /\ mode \in {"stream", "single"}
    /\ pc = "check"
    /\ cancelled = FALSE
    /\ misses = 0
    /\ cur = NoFrame
    /\ slot = << >>
    /\ closed = FALSE
    /\ released = 0
    /\ outW = InitialOutSize(cfg)[1]
    /\ outH = InitialOutSize(cfg)[2]
    /\ hasBuf = FALSE
    /\ ready = FALSE
    /\ pushed = 0
    /\ lastRecv = NoFrame
    /\ eos = FALSE
    /\ csf = IF mode = "single" THEN "waiting" ELSE "off"
    /\ run = 0
    /\ sent = 0
    /\ dropped = {}
    /\ blackRun = FALSE
    /\ afterCancel = [fetch |-> 0, push |-> 0]
    /\ job = NoJob
    /\ res = NoRes
    /\ setup = NoSetup
    /\ hold = NoHold
    /\ crop = NoCrop

\* ------------------------------------------------------------ driver: cycle

\* What the driver has done since ctx.Done() was closed: cycles fetched,
\* frames sent into the channel.
countFetch ==
    IF cancelled THEN [afterCancel EXCEPT !.fetch = @ + 1] ELSE afterCancel

countPush ==
    IF cancelled THEN [afterCancel EXCEPT !.push = @ + 1] ELSE afterCancel

\* Mutant of checkCtx: the loop goes on whatever ctx.Done() says.
checkCtxNeverDone(done) == "fetch"

\* select { case <-ctx.Done(): return; default: }: where the driver goes.
checkCtx(done) == IF done THEN "defer1" ELSE "fetch"

\* The select on ctx.Done() at the top of the loop.
CheckCtx ==
    /\ pc = "check"
    /\ pc' = checkCtx(cancelled)
    /\ UNCHANGED <<auxVars, afterCancel, cfg, mode, cancelled, misses, cur, slot, closed, released,
                   backendVars, pushed, consumerVars, run, sent, dropped, blackRun>>

\* GetFrameSize as sendBlack uses it (always successful on V4L2, where the
\* size is the closure's outW/outH).
getFrameSizeOK == released = 0 /\ outW > 0 /\ outH > 0

\* sendBlack up to its call of sendFrame: TRUE when it goes on to send.
sendBlackOK == getFrameSizeOK /\ makeBlackLen(outW, outH) > 0

\* Mutant of handleDrop: the driver returns on a miss.
handleDropReturns ==
    /\ run < MaxRun
    /\ misses' = misses + 1
    /\ run' = run + 1
    /\ pc' = "defer1"
    /\ UNCHANGED <<cur, pushed, blackRun>>

\* handleDrop: count the miss; from dropThreshold on send a black frame.
handleDrop ==
    /\ run < MaxRun
    /\ misses' = misses + 1
    /\ run' = run + 1
    /\ IF misses + 1 >= dropThreshold /\ sendBlackOK
       THEN /\ pushed < MaxPush
            /\ cur' = Frame(pushed + 1, "black", outW, outH, makeBlackLen(outW, outH))
            /\ pushed' = pushed + 1
            /\ blackRun' = TRUE
            /\ pc' = "send_try"
       ELSE /\ pc' = "check"
            /\ UNCHANGED <<cur, pushed, blackRun>>

\* A cycle that ends with "continue" without counting a miss.
continueCycle ==
    /\ run < MaxRun
    /\ run' = run + 1
    /\ pc' = "check"
    /\ UNCHANGED <<misses, cur, pushed, blackRun>>

\* misses = 0; sendFrame(frame) with a real frame.
sendReal(width, height, n) ==
    /\ pushed < MaxPush
    /\ misses' = 0
    /\ run' = 0
    /\ blackRun' = FALSE
    /\ cur' = Frame(pushed + 1, "real", width, height, n)
    /\ pushed' = pushed + 1
    /\ pc' = "send_try"

\* The frame the V4L2 loop builds from a converted buffer of length n
\* (0: convertFrame returned nil): <<width, height, length>>, length 0 when
\* the cycle is a miss.
linuxFrame(c, n) ==
    IF n = 0 THEN <<0, 0, 0>>
    ELSE IF c.w > cifWidth \/ c.h > cifHeight
         THEN <<cifWidth, cifHeight, resampleLen(n, c.w, c.h, cifWidth, cifHeight)>>
         ELSE <<c.w, c.h, n>>

\* One cycle of the V4L2 driver loop after the cancellation check.
FetchLinux ==
    /\ pc = "fetch"
    /\ cfg.backend = "linux"
    /\ \/ continueCycle                     \* VIDIOC_DQBUF: EAGAIN or EINTR; or buf.Index out of range
       \/ handleDrop                        \* VIDIOC_DQBUF: another error
       \/ /\ pc' = "defer1"                 \* VIDIOC_QBUF fails after the conversion
          /\ UNCHANGED <<misses, cur, pushed, blackRun, run>>
       \/ \E used \in bytesUsedInputs(cfg) :
             LET n == convertTable[cfg][srcLenOf(used, mappedLen(cfg))]
                 f == linuxFrame(cfg, n)
             IN  IF f[3] = 0 THEN handleDrop ELSE sendReal(f[1], f[2], f[3])
    /\ afterCancel' = countFetch
    /\ UNCHANGED <<auxVars, cfg, mode, cancelled, slot, closed, released, backendVars,
                   consumerVars, sent, dropped>>

\* The delegate callback: a sample buffer of the session's size arrives and is
\* written into gFrameBuf under gLock.
Delegate ==
    /\ cfg.backend = "macos"
    /\ released = 0
    /\ outW' = delegateDstSize(cfg.w, cfg.h)[1]
    /\ outH' = delegateDstSize(cfg.w, cfg.h)[2]
    /\ hasBuf' = TRUE
    /\ ready' = TRUE
    /\ UNCHANGED <<auxVars, afterCancel, cfg, mode, pc, cancelled, misses, cur, slot, closed, released,
                   pushed, consumerVars, run, sent, dropped, blackRun>>

\* One cycle of the AVFoundation driver loop after the cancellation check.
FetchMac ==
    /\ pc = "fetch"
    /\ cfg.backend = "macos"
    /\ IF ~hasBuf \/ ~ready
       THEN handleDrop /\ UNCHANGED ready               \* GetFrame returns -1
       ELSE LET size == outW * outH * 3
                n    == goBytesLen(size)
            IN  /\ ready' = FALSE
                /\ IF outW <= 0 \/ outH <= 0 \/ size <= 0 \/ n # outW * outH * 3
                   THEN handleDrop
                   ELSE sendReal(outW, outH, n)
    /\ afterCancel' = countFetch
    /\ UNCHANGED <<auxVars, cfg, mode, cancelled, slot, closed, released, outW, outH, hasBuf,
                   consumerVars, sent, dropped>>

\* One cycle of the Media Foundation driver loop after the cancellation check.
FetchWin ==
    /\ pc = "fetch"
    /\ cfg.backend = "windows"
    /\ \/ handleDrop                        \* ReadSample fails or gives no sample
       \/ \E len \in winSampleLens(cfg) :
             LET size == outW * outH * 3
                 n    == goBytesLen(size)
             IN  IF ~winReady(cfg, len) \/ outW <= 0 \/ outH <= 0 \/ size <= 0 \/ n = 0
                 THEN handleDrop
                 ELSE sendReal(outW, outH, n)
    /\ afterCancel' = countFetch
    /\ UNCHANGED <<auxVars, cfg, mode, cancelled, slot, closed, released, backendVars,
                   consumerVars, sent, dropped>>

\* -------------------------------------------------------- driver: sendFrame

\* Mutant of sendFrameOnFull: the new frame is dropped and the old one kept.
sendFrameKeepOld == "check"

\* Where sendFrame goes when the non-blocking send finds the channel full:
\* the default branch, which takes the old frame out.
sendFrameOnFull == "send_drain"

\* select { case frames <- frame: ... default: ... }
SendTry ==
    /\ pc = "send_try"
    /\ IF Len(slot) < chanCap
       THEN /\ slot' = Append(slot, cur)
            /\ pc' = "check"
       ELSE /\ pc' = sendFrameOnFull
            /\ UNCHANGED slot
    /\ sent' = IF pc' = "check" THEN cur.id ELSE sent
    /\ afterCancel' = IF pc' = "check" THEN countPush ELSE afterCancel
    /\ UNCHANGED <<auxVars, cfg, mode, cancelled, misses, cur, closed, released, backendVars,
                   pushed, consumerVars, run, dropped, blackRun>>

\* <-frames in the default branch: a receive, which waits while the channel
\* is empty.
SendDrain ==
    /\ pc = "send_drain"
    /\ Len(slot) > 0
    /\ dropped' = dropped \cup {Head(slot).id}
    /\ slot' = Tail(slot)
    /\ pc' = "send_put"
    /\ UNCHANGED <<auxVars, afterCancel, cfg, mode, cancelled, misses, cur, closed, released, backendVars,
                   pushed, consumerVars, run, sent, blackRun>>

\* frames <- frame in the default branch: a send, which waits while the
\* channel is full.
SendPut ==
    /\ pc = "send_put"
    /\ Len(slot) < chanCap
    /\ slot' = Append(slot, cur)
    /\ sent' = cur.id
    /\ pc' = "check"
    /\ afterCancel' = countPush
    /\ UNCHANGED <<auxVars, cfg, mode, cancelled, misses, cur, closed, released, backendVars,
                   pushed, consumerVars, run, dropped, blackRun>>

\* ----------------------------------------------------- driver: deferred calls

\* Mutant of deferOrder: the channel is closed before the backend is released.
deferOrderCloseFirst == <<"close", "cleanup">>

\* The deferred calls in the order they run when the goroutine returns:
\* defer close(frames) is registered first, so it runs last.
deferOrder == <<"cleanup", "close">>

deferIndex == IF pc = "defer1" THEN 1 ELSE 2

afterDefer == IF pc = "defer1" THEN "defer2" ELSE "done"

\* cleanup() on V4L2, C.StopCapture() on the other backends.
RunCleanup ==
    /\ pc \in {"defer1", "defer2"}
    /\ deferOrder[deferIndex] = "cleanup"
    /\ released' = released + 1
    /\ IF cfg.backend = "linux"
       THEN UNCHANGED backendVars
       ELSE outW' = 0 /\ outH' = 0 /\ hasBuf' = FALSE /\ ready' = FALSE
    /\ pc' = afterDefer
    /\ UNCHANGED <<auxVars, afterCancel, cfg, mode, cancelled, misses, cur, slot, closed, pushed,
                   consumerVars, run, sent, dropped, blackRun>>

\* close(frames)
RunClose ==
    /\ pc \in {"defer1", "defer2"}
    /\ deferOrder[deferIndex] = "close"
    /\ closed' = TRUE
    /\ pc' = afterDefer
    /\ UNCHANGED <<auxVars, afterCancel, cfg, mode, cancelled, misses, cur, slot, released, backendVars,
                   pushed, consumerVars, run, sent, dropped, blackRun>>

DriverNext ==
    \/ CheckCtx
    \/ FetchLinux
    \/ FetchMac
    \/ FetchWin
    \/ SendTry
    \/ SendDrain
    \/ SendPut
    \/ RunCleanup
    \/ RunClose

\* ------------------------------------------------------------------ consumer

\* The caller cancels the context it passed (to StartStream, or to
\* CaptureSingleFrame, whose derived context is cancelled with it).
Cancel ==
    /\ ~cancelled
    /\ csf \in {"off", "waiting"}
    /\ cancelled' = TRUE
    /\ UNCHANGED <<auxVars, afterCancel, cfg, mode, pc, misses, cur, slot, closed, released, backendVars,
                   pushed, consumerVars, run, sent, dropped, blackRun>>

\* Mutant of Pop: the receive leaves the frame in the channel.
PopPeek ==
    /\ mode = "stream"
    /\ ~eos
    /\ Len(slot) > 0
    /\ lastRecv' = Head(slot)
    /\ UNCHANGED <<auxVars, afterCancel, cfg, mode, pc, cancelled, misses, cur, slot, closed,
                   released, backendVars, pushed, eos, csf, run, sent, dropped, blackRun>>

\* frame, ok := <-frames with ok = true.
Pop ==
    /\ mode = "stream"
    /\ ~eos
    /\ Len(slot) > 0
    /\ lastRecv' = Head(slot)
    /\ slot' = Tail(slot)
    /\ UNCHANGED <<auxVars, afterCancel, cfg, mode, pc, cancelled, misses, cur, closed, released,
                   backendVars, pushed, eos, csf, run, sent, dropped, blackRun>>

\* Mutant of PopClosed: a closed channel reports its end although a frame
\* waits in it.
PopClosedEarly ==
    /\ mode = "stream"
    /\ ~eos
    /\ closed
    /\ eos' = TRUE
    /\ UNCHANGED <<auxVars, afterCancel, cfg, mode, pc, cancelled, misses, cur, slot, closed,
                   released, backendVars, pushed, lastRecv, csf, run, sent, dropped, blackRun>>

\* frame, ok := <-frames with ok = false.
PopClosed ==
    /\ mode = "stream"
    /\ ~eos
    /\ Len(slot) = 0
    /\ closed
    /\ eos' = TRUE
    /\ UNCHANGED <<auxVars, afterCancel, cfg, mode, pc, cancelled, misses, cur, slot, closed, released,
                   backendVars, pushed, lastRecv, csf, run, sent, dropped, blackRun>>

\* CaptureSingleFrame: the select, the return and the deferred cancel().
SingleFrame ==
    /\ mode = "single"
    /\ csf = "waiting"
    /\ \/ /\ cancelled                      \* case <-ctxCapture.Done()
          /\ csf' = "ctxerr"
          /\ UNCHANGED <<slot, lastRecv, eos>>
       \/ /\ csf' = "timeout"               \* case <-timer.C
          /\ UNCHANGED <<slot, lastRecv, eos>>
       \/ /\ Len(slot) > 0                  \* case frame, ok := <-frames, ok
          /\ lastRecv' = Head(slot)
          /\ slot' = Tail(slot)
          /\ csf' = "frame"
          /\ UNCHANGED eos
       \/ /\ Len(slot) = 0                  \* case frame, ok := <-frames, !ok
          /\ closed
          /\ eos' = TRUE
          /\ csf' = "closed"
          /\ UNCHANGED <<slot, lastRecv>>
    /\ cancelled' = TRUE
    /\ UNCHANGED <<auxVars, afterCancel, cfg, mode, pc, misses, cur, closed, released, backendVars,
                   pushed, run, sent, dropped, blackRun>>

Next ==
    \/ DriverNext
    \/ Delegate
    \/ Cancel
    \/ Pop
    \/ PopClosed
    \/ SingleFrame

Spec == Init /\ [][Next]_vars

\* ------------------------------------------- normalization of single frames

\* The session variables while single frames are normalized: no session runs.
NoSession ==
    /\ cfg = [backend |-> "none", fmt |-> "none", w |-> 0, h |-> 0, stride |-> 0]
    /\ mode = "none"
    /\ pc = "none"
    /\ cancelled = FALSE
    /\ misses = 0
    /\ cur = NoFrame
    /\ slot = << >>
    /\ closed = FALSE
    /\ released = 0
    /\ outW = 0
    /\ outH = 0
    /\ hasBuf = FALSE
    /\ ready = FALSE
    /\ pushed = 0
    /\ lastRecv = NoFrame
    /\ eos = FALSE
    /\ csf = "off"
    /\ run = 0
    /\ sent = 0
    /\ dropped = {}
    /\ blackRun = FALSE
    /\ afterCancel = [fetch |-> 0, push |-> 0]

\* A raw frame arrives at a backend's normalization.
ConvInit ==
    /\ NoSession
    /\ job \in Jobs
    /\ res = NoRes
    /\ setup = NoSetup
    /\ hold = NoHold
    /\ crop = NoCrop

\* convertFrame(src, pixelFormat, width, height, stride) in the V4L2 loop.
ConvertLinux ==
    /\ job.backend = "linux"
    /\ res = NoRes
    /\ res' = convertFrame(job.src, job.fmt, job.w, job.h, job.stride)
    /\ UNCHANGED <<sessionVars, job, setup, hold, crop>>

\* GetFrame on Media Foundation from the locked sample on. A read beyond the
\* sample yields whatever is there or faults.
ConvertWin ==
    /\ job.backend = "windows"
    /\ res = NoRes
    /\ \E g \in Garbage, f \in BOOLEAN :
          LET r == winGetFrame(job.src, job.fmt, job.w, job.h, job.stride, g)
          IN  /\ f => \E o \in r.reads : o >= Len(job.src)
              /\ res' = [r EXCEPT !.fault = f]
    /\ UNCHANGED <<sessionVars, job, setup, hold, crop>>

\* captureOutput on AVFoundation for one sample buffer.
ConvertMac ==
    /\ job.backend = "macos"
    /\ res = NoRes
    /\ res' = macDelegate(job.src, job.stride, job.plane1, job.stride1, job.fmt,
                          job.w, job.h)
    /\ UNCHANGED <<sessionVars, job, setup, hold, crop>>

\* The driver loop after the normalization: a failed VIDIOC_QBUF returns; no
\* frame (nil, gReady = 0, nothing written by the delegate) is a miss; a
\* frame is sent. A faulting read ends the process.
ConvCycle ==
    /\ res # NoRes
    /\ pc = "none"
    /\ IF res.fault
       THEN pc' = "crashed" /\ UNCHANGED <<misses, cur, pushed, blackRun, run>>
       ELSE \/ /\ job.backend = "linux"
               /\ pc' = "defer1"
               /\ UNCHANGED <<misses, cur, pushed, blackRun, run>>
            \/ IF res.ok
               THEN sendReal(res.w, res.h, res.w * res.h * 3)
               ELSE handleDrop
    /\ UNCHANGED <<auxVars, cfg, mode, cancelled, slot, closed, released, backendVars,
                   consumerVars, sent, dropped, afterCancel>>

ConvNext ==
    \/ ConvertLinux
    \/ ConvertWin
    \/ ConvertMac
    \/ ConvCycle

ConvSpec == ConvInit /\ [][ConvNext]_vars

\* ---------------------------------------------------- session setup: steps

\* A call of StartStream, or of CaptureSingleFrame, begins.
SetupInit ==
    /\ NoSession
    /\ job = NoJob
    /\ res = NoRes
    /\ setup \in
         { SetupStart("linux", f, n, c) :
             f \in {"YUV24", "NV12", "YUYV", "RGB24", "MJPG"}, n \in 1..MaxBuffers,
             c \in {"StartStream", "CaptureSingleFrame"} }
         \cup { SetupStart(b, f, 0, c) :
                  b \in {"windows"}, f \in {"NV12", "YUY2", "MJPG"},
                  c \in {"StartStream", "CaptureSingleFrame"} }
         \cup { SetupStart(b, f, 0, c) :
                  b \in {"macos"}, f \in {"NV12", "YUV444", "OTHER"},
                  c \in {"StartStream", "CaptureSingleFrame"} }
    /\ hold = NoHold
    /\ crop = NoCrop

\* V4L2: syscall.Open.
LinuxOpen ==
    /\ setup.backend = "linux"
    /\ setup.step = "call"
    /\ LET s == [setup EXCEPT !.calls = @ + 1]
       IN  \/ setup' = failed(s, {}, "os")
           \/ setup' = [acquire(s, {"fd"}) EXCEPT !.step = "querycap"]
    /\ UNCHANGED <<sessionVars, job, res, hold, crop>>

\* V4L2: VIDIOC_QUERYCAP and the capability checks.
LinuxQuerycap ==
    /\ setup.backend = "linux"
    /\ setup.step = "querycap"
    /\ \/ setup' = failed(setup, linuxCleanup(setup), "os")
       \/ setup' = [setup EXCEPT !.step = "sfmt", !.idx = 1]
    /\ UNCHANGED <<sessionVars, job, res, hold, crop>>

\* V4L2: VIDIOC_S_FMT for fmtChain[idx]; the driver answers with the format
\* it delivers.
LinuxSetFormat ==
    /\ setup.backend = "linux"
    /\ setup.step = "sfmt"
    /\ \/ setup' = failed(setup, linuxCleanup(setup), "os")
       \/ setup' = IF setup.native = fmtChain[setup.idx]
                   THEN [setup EXCEPT !.step = "reqbufs"]
                   ELSE IF setup.idx < Len(fmtChain)
                        THEN [setup EXCEPT !.idx = @ + 1]
                        ELSE failed(setup, linuxCleanup(setup), "format")
    /\ UNCHANGED <<sessionVars, job, res, hold, crop>>

\* V4L2: VIDIOC_REQBUFS and the check of req.Count.
LinuxReqbufs ==
    /\ setup.backend = "linux"
    /\ setup.step = "reqbufs"
    /\ \/ setup' = failed(setup, linuxCleanup(setup), "os")
       \/ setup' = IF setup.granted < 2
                   THEN failed(setup, linuxCleanup(setup), "os")
                   ELSE [setup EXCEPT !.step = "buffer", !.idx = 0]
    /\ UNCHANGED <<sessionVars, job, res, hold, crop>>

\* V4L2: one round of the loop over the buffers: VIDIOC_QUERYBUF, Mmap,
\* VIDIOC_QBUF.
LinuxBuffer ==
    /\ setup.backend = "linux"
    /\ setup.step = "buffer"
    /\ LET mapped == acquire(setup, {"mmap"})
       IN  \/ setup' = failed(setup, linuxCleanup(setup), "os")       \* QUERYBUF or Mmap
           \/ setup' = failed(mapped, linuxCleanup(mapped), "os")     \* QBUF
           \/ setup' = IF setup.idx + 1 < setup.granted
                       THEN [mapped EXCEPT !.idx = @ + 1]
                       ELSE [mapped EXCEPT !.step = "streamon"]
    /\ UNCHANGED <<sessionVars, job, res, hold, crop>>

\* V4L2: VIDIOC_STREAMON, the check of the frame size, make(chan Frame, 1)
\* and go func().
LinuxStreamOn ==
    /\ setup.backend = "linux"
    /\ setup.step = "streamon"
    /\ LET on == acquire(setup, {"streaming"})
       IN  \/ setup' = failed(setup, linuxCleanup(setup), "os")       \* STREAMON
           \/ setup' = failed(on, linuxCleanup(on), "os")             \* invalid frame size
           \/ setup' = started(on)
    /\ UNCHANGED <<sessionVars, job, res, hold, crop>>

\* Media Foundation: CoInitializeEx (RPC_E_CHANGED_MODE is let pass: COM was
\* initialized by someone else) and MFStartup.
WinInit ==
    /\ setup.backend = "windows"
    /\ setup.step = "call"
    /\ LET s == [setup EXCEPT !.calls = @ + 1]
       IN  \/ setup' = failed(s, {}, "os")                            \* CoInitializeEx
           \/ \E mine \in BOOLEAN :
                 LET c == IF mine THEN acquire(s, {"com"}) ELSE s
                 IN  \/ setup' = failed(c, {"com"}, "os")             \* MFStartup
                     \/ setup' = [acquire(c, {"mf", "criticalSection"})
                                     EXCEPT !.step = "enumerate"]
    /\ UNCHANGED <<sessionVars, job, res, hold, crop>>

\* Media Foundation: MFCreateAttributes, SetGUID, MFEnumDeviceSources.
WinEnumerate ==
    /\ setup.backend = "windows"
    /\ setup.step = "enumerate"
    /\ LET a == acquire(setup, {"attr"})
           d == acquire(a, {"devices"})
       IN  \/ setup' = failed(setup, winFail(setup), "os")            \* MFCreateAttributes
           \/ setup' = failed(a, winFail(a), "os")                    \* SetGUID, enumeration
           \/ setup' = failed(d, winFail(d), "os")                    \* count == 0
           \/ setup' = [d EXCEPT !.step = "activate"]
    /\ UNCHANGED <<sessionVars, job, res, hold, crop>>

\* Media Foundation: ActivateObject and MFCreateSourceReaderFromMediaSource.
WinActivate ==
    /\ setup.backend = "windows"
    /\ setup.step = "activate"
    /\ LET src == acquire(setup, {"source"})
           rd  == acquire(src, {"reader"})
       IN  \/ setup' = failed(setup, winFail(setup), "os")            \* ActivateObject
           \/ setup' = failed(src, {"source"} \cup winFail(src), "os")  \* reader creation
           \/ setup' = [rd EXCEPT !.step = "negotiate"]
    /\ UNCHANGED <<sessionVars, job, res, hold, crop>>

\* Media Foundation: MFCreateMediaType, the major type, the loop over the
\* desired subtypes and, when none is accepted, GetCurrentMediaType.
WinNegotiate ==
    /\ setup.backend = "windows"
    /\ setup.step = "negotiate"
    /\ LET t     == acquire(setup, {"type"})
           none  == release(t, {"type"})
           again == acquire(none, {"type"})
       IN  \/ setup' = failed(setup, winFail(setup), "os")            \* MFCreateMediaType
           \/ setup' = failed(t, winFail(t), "os")                    \* SetGUID major type
           \/ /\ setup.native \in supportedFormats("windows")         \* a subtype is accepted
              /\ setup' = [t EXCEPT !.step = "finish"]
           \/ setup' = failed(none, winFail(none), "os")              \* GetCurrentMediaType
           \/ setup' = [again EXCEPT !.step = "finish"]
    /\ UNCHANGED <<sessionVars, job, res, hold, crop>>

\* Media Foundation: the sizes and the format info, the releases before
\* return S_OK, then make(chan Frame, 1) and go func().
WinFinish ==
    /\ setup.backend = "windows"
    /\ setup.step = "finish"
    /\ setup' = started(release(setup, {"type", "source", "attr", "devices"}))
    /\ UNCHANGED <<sessionVars, job, res, hold, crop>>

\* AVFoundation: gLock, the default device, its input, the session.
MacOpen ==
    /\ setup.backend = "macos"
    /\ setup.step = "call"
    /\ LET l  == acquire([setup EXCEPT !.calls = @ + 1], {"gLock"})
           i  == acquire(l, {"input"})
           se == acquire(i, {"session"})
       IN  \/ setup' = failed(l, macFail(l), "os")                    \* return -1, -2
           \/ setup' = failed(i, macFail(i), "os")                    \* return -3
           \/ setup' = failed(se, macFail(se), "os")                  \* return -4
           \/ setup' = [se EXCEPT !.step = "output"]
    /\ UNCHANGED <<sessionVars, job, res, hold, crop>>

\* AVFoundation: the output, gDelegate, gQueue, canAddOutput, startRunning
\* and gSession = session; then make(chan Frame, 1) and go func().
MacOutput ==
    /\ setup.backend = "macos"
    /\ setup.step = "output"
    /\ LET o == acquire(setup, {"output", "gDelegate", "gQueue"})
       IN  \/ setup' = failed(o, macFail(o), "os")                    \* return -5
           \/ setup' = started(o)
    /\ UNCHANGED <<sessionVars, job, res, hold, crop>>

\* CaptureSingleFrame: StartStream returned an error, which is returned with
\* the empty frame.
SingleFrameError ==
    /\ setup.via = "CaptureSingleFrame"
    /\ setup.step = "returned"
    /\ setup.ret = "error"
    /\ setup' = [setup EXCEPT !.step = "returned to caller"]
    /\ UNCHANGED <<sessionVars, job, res, hold, crop>>

SetupNext ==
    \/ LinuxOpen
    \/ LinuxQuerycap
    \/ LinuxSetFormat
    \/ LinuxReqbufs
    \/ LinuxBuffer
    \/ LinuxStreamOn
    \/ WinInit
    \/ WinEnumerate
    \/ WinActivate
    \/ WinNegotiate
    \/ WinFinish
    \/ MacOpen
    \/ MacOutput
    \/ SingleFrameError

SetupSpec == SetupInit /\ [][SetupNext]_vars

\* -------------------------------- AVFoundation: the holding buffer, steps

\* captureOutput between [gLock lock] and [gLock unlock]: gFrameBuf is
\* reallocated when the size changed, written from the raw frame, gFrameReady
\* is set.
HoldDelegate ==
    /\ hold.pc # "none"
    /\ hold.raw < MaxRaw
    /\ \E s \in HoldSizes :
          LET id    == hold.raw + 1
              fresh == hold.buf = << >> \/ hold.w # s[1] \/ hold.h # s[2]
          IN  hold' = [hold EXCEPT !.buf = [i \in 1..(s[1] * s[2] * 3) |-> id],
                                   !.w = s[1], !.h = s[2],
                                   !.gen = IF fresh THEN @ + 1 ELSE @,
                                   !.ready = TRUE,
                                   !.raw = id]
    /\ UNCHANGED <<sessionVars, job, res, setup, crop>>

\* GetFrame returning 0: the pointer and the sizes are taken and gFrameReady
\* cleared under gLock.
HoldGetFrame ==
    /\ hold.pc = "GetFrame"
    /\ hold.buf # << >>
    /\ hold.ready
    /\ hold' = [hold EXCEPT !.pc = "GoBytes", !.cbuf = hold.gen,
                            !.size = hold.w * hold.h * 3, !.data = << >>,
                            !.ready = FALSE, !.ret = 0,
                            !.got = hold.raw, !.prev = hold.got,
                            !.last = {hold.data[i] : i \in 1..Len(hold.data)}]
    /\ UNCHANGED <<sessionVars, job, res, setup, crop>>

\* GetFrame returning -1: no buffer yet, or gFrameReady is 0.
HoldNoFrame ==
    /\ hold.pc = "GetFrame"
    /\ hold.buf = << >> \/ ~hold.ready
    /\ hold' = [hold EXCEPT !.ret = -1]
    /\ UNCHANGED <<sessionVars, job, res, setup, crop>>

\* C.GoBytes(cbuf, size) copies the next byte, gLock not held. A byte of an
\* allocation that was freed meanwhile is anything, or the read faults.
HoldGoBytes ==
    /\ hold.pc = "GoBytes"
    /\ LET i    == Len(hold.data) + 1
           done == IF i = hold.size THEN "copied" ELSE "GoBytes"
       IN  IF hold.cbuf = hold.gen
           THEN hold' = [hold EXCEPT !.data = Append(@, hold.buf[i]), !.pc = done]
           ELSE \/ \E g \in 0..MaxRaw :
                      hold' = [hold EXCEPT !.data = Append(@, g), !.pc = done]
                \/ hold' = [hold EXCEPT !.pc = "fault", !.fault = TRUE]
    /\ UNCHANGED <<sessionVars, job, res, setup, crop>>

\* The copy becomes the frame handed to sendFrame; the next cycle begins.
HoldSend ==
    /\ hold.pc = "copied"
    /\ hold' = [hold EXCEPT !.pc = "GetFrame"]
    /\ UNCHANGED <<sessionVars, job, res, setup, crop>>

HoldInit ==
    /\ NoSession
    /\ job = NoJob
    /\ res = NoRes
    /\ setup = NoSetup
    /\ hold = HoldStart
    /\ crop = NoCrop

HoldNext ==
    \/ HoldDelegate
    \/ HoldGetFrame
    \/ HoldNoFrame
    \/ HoldGoBytes
    \/ HoldSend

HoldSpec == HoldInit /\ [][HoldNext]_vars

\* ---------------------------------------------------- downsampling: steps

CropInit ==
    /\ NoSession
    /\ job = NoJob
    /\ res = NoRes
    /\ setup = NoSetup
    /\ hold = NoHold
    /\ crop \in { CropStart(bf[1], bf[2], s) :
                    bf \in { <<"linux", "444">>, <<"windows", "NV12">>,
                             <<"windows", "YUY2">>, <<"macos", "NV12">>,
                             <<"macos", "BGRA">> },
                    s \in CropSizes }

\* resampleYCbCr444Fill: the crop.
CropLinux ==
    /\ crop.backend = "linux"
    /\ crop.step = "source"
    /\ crop' = [crop EXCEPT !.step = "cropped", !.rect = resampleCrop(crop.w, crop.h)]
    /\ UNCHANGED <<sessionVars, job, res, setup, hold>>

\* GetFrame: the crop.
CropWin ==
    /\ crop.backend = "windows"
    /\ crop.step = "source"
    /\ crop' = [crop EXCEPT !.step = "cropped",
                            !.rect = winCrop(crop.w, crop.h, winDstSize(crop.w, crop.h)[1],
                                             winDstSize(crop.w, crop.h)[2])]
    /\ UNCHANGED <<sessionVars, job, res, setup, hold>>

\* captureOutput: the crop.
CropMac ==
    /\ crop.backend = "macos"
    /\ crop.step = "source"
    /\ crop' = [crop EXCEPT !.step = "cropped", !.rect = macCrop(crop.w, crop.h)]
    /\ UNCHANGED <<sessionVars, job, res, setup, hold>>

\* The remap loop for destination pixel (dy, dx): the source pixel sampled
\* (at) and the offsets of the source buffer the pixel is made of (from,
\* << >> when the loop skips the pixel; the delegate skips none).
remapPixel(c, dy, dx) ==
    CASE c.backend = "linux" ->
           [at   |-> resampleSource(c.w, c.h, dy, dx).at,
            from |-> resampleOffsets(c.w * c.h * 3, c.w, c.h, dy, dx)]
      [] c.backend = "windows" ->
           LET s == winSourcePixel(c.w, c.h, winDstSize(c.w, c.h)[1],
                                   winDstSize(c.w, c.h)[2], dy, dx)
           IN  [at   |-> s,
                from |-> winOffsets(c.fmt, c.w, c.h, formatRowBytes(c.fmt, c.w),
                                    s[1], s[2]).use]
      [] c.backend = "macos" ->
           LET s == macSourcePixel(c.w, c.h, dy, dx)
           IN  [at |-> s, from |-> <<s[1] * c.w + s[2]>>]

\* One row of the remap loop.
RemapRow ==
    /\ crop.step = "cropped"
    /\ \E dy \in SampleRows :
          crop' = [crop EXCEPT !.step = "row", !.dy = dy,
                               !.row = [dx \in 0..(cifWidth - 1) |->
                                           remapPixel(crop, dy, dx)]]
    /\ UNCHANGED <<sessionVars, job, res, setup, hold>>

CropNext ==
    \/ CropLinux
    \/ CropWin
    \/ CropMac
    \/ RemapRow

CropSpec == CropInit /\ [][CropNext]_vars

\* ------------------------------------------------------------------- claims

\* The driver is inside sendFrame.
InSendFrame == pc \in {"send_try", "send_drain", "send_put"}

\* The model follows a session up to MaxPush frames and MaxRun cycles without
\* a real frame; it stops only in front of a fetch.
AtModelBound == pc = "fetch"

\* C1: push never blocks: whenever the driver is inside sendFrame its next
\* step can be taken without waiting for the consumer.
C1_PushNeverBlocks == InSendFrame => ENABLED DriverNext

\* C2: after cancellation is signalled the driver exits and the channel is
\* closed: once cancelled, the driver is never left without a step to take
\* before it is done.
C2_CancelTerminates ==
    cancelled => (pc = "done" /\ closed) \/ AtModelBound \/ ENABLED DriverNext

\* C3: the backend release runs at most once per session, and whenever the
\* channel is closed the release has run exactly once (so it ran before the
\* close).
C3_ReleaseOnceBeforeClose == released <= 1 /\ (closed => released = 1)

\* C3 witness: cancelled mid-stream with a consumer in pop, which got the
\* end-of-stream indication after the release.
C3_Witness == closed /\ released = 1 /\ cancelled /\ eos /\ lastRecv # NoFrame

\* C4: once CaptureSingleFrame has returned, the driver of its session
\* terminates and releases the backend: it is never left without a step to
\* take before it is done.
C4_SingleFrameReleases ==
    csf \in {"frame", "timeout", "ctxerr", "closed"} =>
        (pc = "done" /\ released = 1) \/ AtModelBound \/ ENABLED DriverNext

\* C5: drop-oldest: every pop returns the frame of the latest completed
\* sendFrame, so after pushes of A then B with no pop in between the next pop
\* returns B; and the ids received strictly increase, so A is not returned by
\* any later pop.
C5_DropOldest ==
    [][lastRecv' # lastRecv => (lastRecv'.id = sent /\ lastRecv'.id > lastRecv.id)]_vars

\* C5 witness: frame 1 was pushed, frame 2 was pushed over it with no pop in
\* between (the driver took frame 1 back), and the pop returned frame 2.
C5_Witness == lastRecv.id = 2 /\ dropped = {1}

\* C6: after dropThreshold consecutive cycles without a frame a neutral-fill
\* frame has been handed to the channel, on every backend and for every kind
\* of absent fetch.
C6_BlackAfterThreshold == run >= dropThreshold => blackRun

\* C7: at every cycle boundary misses equals the number of immediately
\* preceding consecutive cycles that pushed no real frame.
C7_MissCounterIsRun == pc = "check" => misses = run

\* The frames a consumer can receive or has received.
Deliverable == {slot[i] : i \in 1..Len(slot)} \cup ({lastRecv} \ {NoFrame})

\* C8: every frame the consumer can receive, real or neutral-fill, has
\* Width > 0, Height > 0 and len(Data) = Width*Height*3.
C8_FrameWellFormed ==
    \A f \in Deliverable : f.w > 0 /\ f.h > 0 /\ f.len = f.w * f.h * 3

\* C8 witness: a neutral-fill frame was received and a real frame waits in
\* the channel.
C8_Witness == lastRecv.kind = "black" /\ Len(slot) = 1 /\ slot[1].kind = "real"

\* The size the spec gives the output for the session's source.
SpecOutSize ==
    IF cfg.w > cifWidth \/ cfg.h > cifHeight
    THEN <<cifWidth, cifHeight>>
    ELSE <<cfg.w, cfg.h>>

\* C9: every received frame, real or neutral-fill, is 352x288 when the source
\* exceeds the bounds on either axis and the source size otherwise.
C9_DeliveredSize == lastRecv # NoFrame => <<lastRecv.w, lastRecv.h>> = SpecOutSize

\* C10 as stated: on each axis the received frame is no larger than the
\* source.
C10_NeverUpsamples ==
    lastRecv # NoFrame => lastRecv.w <= cfg.w /\ lastRecv.h <= cfg.h

\* C10 amended: no received frame is larger than 352x288, and a received real
\* frame exceeds the source on an axis only when the source exceeds the bounds
\* on the other axis (so a source within the bounds is never enlarged).
C10_UpsamplesOnlyToFill ==
    lastRecv # NoFrame =>
        /\ lastRecv.w <= cifWidth
        /\ lastRecv.h <= cifHeight
        /\ lastRecv.kind = "real" =>
              /\ lastRecv.w <= cfg.w \/ cfg.h > cifHeight
              /\ lastRecv.h <= cfg.h \/ cfg.w > cifWidth

\* C10 witness: a real frame of a source wider than the bounds and lower than
\* them was received, enlarged on the vertical axis.
C10_Witness ==
    /\ lastRecv.kind = "real"
    /\ cfg.w > cifWidth
    /\ cfg.h < cifHeight
    /\ lastRecv.h > cfg.h

\* The normalization of the raw frame has returned.
Normalized == res # NoRes

\* The length the declared size and stride of the raw frame require.
JobRequired ==
    requiredLen(job.fmt, job.w, job.h, declaredStride(job.fmt, job.w, job.stride))

\* C11: for every declared width, height and stride and every buffer length,
\* normalization reads only offsets below the buffer length, and a buffer
\* shorter than the declaration requires is reported as a failure, not
\* turned into a frame.
C11_BoundsDiscipline ==
    (Normalized /\ job.backend \in {"linux", "windows"} /\ job.fmt # "OTHER") =>
        /\ \A o \in res.reads : o < Len(job.src)
        /\ Len(job.src) < JobRequired => ~res.ok

\* The row distance the raw frame declares.
JobStride == declaredStride(job.fmt, job.w, job.stride)

\* The raw frame's buffer holds every row of the declared frame in full.
BufferComplete ==
    job.backend = "macos" \/ Len(job.src) >= completeLen(job.fmt, job.w, job.h, JobStride)

\* The luma and chroma planes of a biplanar raw frame with their strides: the
\* two planes of an AVFoundation pixel buffer; elsewhere the luma plane is the
\* first height rows of the buffer and the chroma plane the rest.
LumaPlane ==
    IF job.backend = "macos" THEN job.src ELSE SubSeq(job.src, 1, JobStride * job.h)

ChromaPlane ==
    IF job.backend = "macos" THEN job.plane1
    ELSE SubSeq(job.src, JobStride * job.h + 1, Len(job.src))

LumaStride == IF job.backend = "macos" THEN job.stride ELSE JobStride

ChromaStride == IF job.backend = "macos" THEN job.stride1 ELSE JobStride

\* C15: for every biplanar 4:2:0 buffer, odd sizes included, the normalized
\* pixel at (row, col) is (luma[row*lumaStride + col],
\* chroma[(row/2)*chromaStride + (col/2)*2], the byte after it); and the 4x2
\* example buffer normalizes to a frame whose first two pixels of row 0 are
\* (10,100,150) and (20,100,150).
C15_BiplanarMapping ==
    /\ (Normalized /\ job.fmt = "NV12" /\ BufferComplete) =>
          /\ res.ok
          /\ \A p \in Pixels(job.w, job.h) :
                res.px[p] =
                  << LumaPlane[p[1] * LumaStride + p[2] + 1],
                     ChromaPlane[(p[1] \div 2) * ChromaStride + (p[2] \div 2) * 2 + 1],
                     ChromaPlane[(p[1] \div 2) * ChromaStride + (p[2] \div 2) * 2 + 2] >>
    /\ (Normalized /\ job.src = ExampleNV12) =>
          /\ res.ok
          /\ res.px[<<0, 0>>] = <<10, 100, 150>>
          /\ res.px[<<0, 1>>] = <<20, 100, 150>>

\* The 4-byte group of column x in row y of a packed 4:2:2 raw frame.
Group422(y, x) == SubSeq(job.src, y * JobStride + (x \div 2) * 4 + 1,
                                  y * JobStride + (x \div 2) * 4 + 4)

\* C16: for every packed 4:2:2 buffer and every column x of every row, odd
\* widths included, the normalized pixel takes U and V from the 4-byte group
\* x/2 of its row and its luma from Y0 of the group when x is even, Y1 when x
\* is odd; the group is [Y0,U,Y1,V] luma-first and [U,Y0,V,Y1] chroma-first.
C16_Packed422Mapping ==
    (Normalized /\ job.fmt \in {"YUYV", "YUY2", "UYVY"} /\ BufferComplete) =>
        /\ res.ok
        /\ \A p \in Pixels(job.w, job.h) :
              LET g == Group422(p[1], p[2])
              IN  res.px[p] =
                    IF job.fmt = "UYVY"
                    THEN << IF p[2] % 2 = 0 THEN g[2] ELSE g[4], g[1], g[3] >>
                    ELSE << IF p[2] % 2 = 0 THEN g[1] ELSE g[3], g[2], g[4] >>

\* The documented conversion of one component: the weighted sum with the
\* rounding term shifted right by 8 (floor), the offset added, clamped.
DocComponent(sum, offset) ==
    LET v == ((sum + 128) \div 256) + offset
    IN  IF v < 0 THEN 0 ELSE IF v > 255 THEN 255 ELSE v

DocYCbCr(c) ==
    << DocComponent(66 * c[1] + 129 * c[2] + 25 * c[3], 16),
       DocComponent(112 * c[3] - 38 * c[1] - 74 * c[2], 128),
       DocComponent(112 * c[1] - 94 * c[2] - 18 * c[3], 128) >>

\* C17: for every 8-bit R, G, B the 24-bit and 32-bit packed-colour
\* conversions of every backend output exactly the documented Y, Cb, Cr,
\* whatever the fourth byte of a 32-bit pixel holds.
C17_ColourFormula ==
    (Normalized /\ job.rgb # << >>) => res.ok /\ res.px[<<0, 0>>] = DocYCbCr(job.rgb)

\* C17 witness: a 32-bit pixel with a set fourth byte, whose Cb sum is
\* negative, has been converted by the AVFoundation delegate.
C17_Witness ==
    /\ Normalized
    /\ job.backend = "macos"
    /\ job.rgb = <<255, 0, 0>>
    /\ job.src[4] = 255
    /\ res.px[<<0, 0>>][2] < 128

\* A 24-bit colour pixel (R=255, G=0, B=0) has been converted.
RedConverted ==
    Normalized /\ job.fmt = "RGB24" /\ job.rgb = <<255, 0, 0>> /\ res.ok

\* C18 as stated: the 24-bit pixel (255, 0, 0) converts to (81, 90, 240).
C18_RedIs81 == RedConverted => res.px[<<0, 0>>] = <<81, 90, 240>>

\* C18 amended: the 24-bit pixel (255, 0, 0) converts to (82, 90, 240).
C18_RedIs82 == RedConverted => res.px[<<0, 0>>] = <<82, 90, 240>>

\* C18 witness: convertFrame has converted the pixel (255, 0, 0).
C18_Witness == RedConverted /\ job.backend = "linux"

\* StartStream has returned.
SetupReturned == setup.step \in {"returned", "returned to caller"}

\* C12: when the backend declares a pixel format outside the supported set
\* and no system call of the setup fails, StartStream does not fail: it
\* returns the channel and the driver runs.
C12_UnsupportedFormatStarts ==
    (SetupReturned /\ setup.native \notin supportedFormats(setup.backend)
        /\ setup.cause # "os") =>
        setup.ret = "ok" /\ setup.chan /\ setup.driver

\* C14: when a setup step fails, StartStream returns the error and no
\* channel, starts no driver, has released everything it acquired exactly
\* once, and was called once.
C14_SetupFailureReleases ==
    (SetupReturned /\ setup.ret = "error") =>
        /\ ~setup.chan
        /\ ~setup.driver
        /\ setup.calls = 1
        /\ \A r \in Resources : setup.freed[r] = setup.acq[r]

\* C13: every frame the driver copied out of the holding buffer consists
\* entirely of the bytes of one raw frame.
C13_NoPartialFrame ==
    hold.pc = "copied" =>
        \E id \in 1..MaxRaw : hold.data = [i \in 1..hold.size |-> id]

\* A cycle ends as a miss: it pushed no real frame and the loop goes on.
MissCycle == pc = "fetch" /\ run' = run + 1

\* A black frame is handed to sendFrame.
BlackHanded == pc = "fetch" /\ pc' = "send_try" /\ cur'.kind = "black"

\* C19: a black frame is pushed in a cycle exactly when the cycle is a miss
\* that leaves the misses counter at dropThreshold or above while the output
\* size is known; pushing it leaves the misses counter unchanged.
C19_BlackIffMissAtThreshold ==
    [][ /\ BlackHanded <=> (MissCycle /\ misses' >= dropThreshold /\ sendBlackOK)
        /\ (pc \in {"send_try", "send_drain", "send_put"} /\ cur.kind = "black") =>
               misses' = misses ]_vars

\* C20: after ctx.Done() is closed the driver begins no new cycle: a cycle
\* that is still to fetch was begun before, and at most one fetch and one
\* send into the channel happen from then on.
C20_NoNewCycleAfterCancel ==
    cancelled =>
        /\ afterCancel.fetch <= 1
        /\ afterCancel.push <= 1
        /\ pc = "fetch" => afterCancel.fetch = 0
        /\ pc \in {"send_try", "send_drain", "send_put"} => afterCancel.push = 0

\* The driver has returned after the one fetch and the one send of the cycle
\* that was in progress when ctx.Done() was closed.
C20_Witness ==
    cancelled /\ pc = "done" /\ afterCancel = [fetch |-> 1, push |-> 1]

\* The driver goroutine leaves its loop.
DriverReturns == pc \notin {"defer1", "defer2", "done"} /\ pc' = "defer1"

\* The return after a failed VIDIOC_QBUF: the backend cannot go on.
BackendFailure ==
    pc = "fetch" /\ cfg.backend = "linux" /\ misses' = misses /\ run' = run

\* C21: the driver leaves its loop, and the channel is closed, only after
\* ctx.Done() was closed or the backend failed for good: no miss, short
\* buffer or failed conversion ends the stream.
C21_EndsOnlyOnCancelOrFailure ==
    [][ /\ DriverReturns => (cancelled \/ BackendFailure)
        /\ (closed' /\ ~closed) => pc \in {"defer1", "defer2"}
        /\ (pc \notin {"defer1", "defer2", "done"}) => ~closed ]_vars

\* A run of misses beyond dropThreshold has passed, a black frame was sent,
\* and the stream is open.
C21_Witness ==
    ~cancelled /\ ~closed /\ pc = "check" /\ misses > dropThreshold /\ blackRun

\* The driver has dealt with the normalized buffer and goes on.
CycleDone == pc \in {"check", "send_try"}

\* The normalization failed or the buffer was shorter than the declared
\* size and stride require.
NormalizationFails ==
    /\ job.backend \in {"linux", "windows"}
    /\ job.fmt # "OTHER"
    /\ ~res.ok \/ Len(job.src) < JobRequired

\* C22: a cycle whose normalization fails, or whose buffer is too short,
\* pushes no frame and counts as one miss; the loop goes on.
C22_FailedNormalizationIsMiss ==
    (CycleDone /\ NormalizationFails) =>
        misses = 1 /\ cur = NoFrame /\ pushed = 0 /\ pc = "check"

\* C27: every frame the consumer receives is the frame at the head of the
\* channel, pushed by the driver and not taken back by it, and newer than
\* every frame received before; the frames left in the channel are newer
\* still, so the frames are received in the order of their pushes and none
\* twice.
C27_ReceivedInPushOrder ==
    [][ /\ lastRecv' # lastRecv =>
              /\ Len(slot) > 0
              /\ lastRecv' = Head(slot)
              /\ lastRecv'.id \in (lastRecv.id + 1)..pushed
              /\ lastRecv'.id \notin dropped
        /\ \A i \in 1..Len(slot') : slot'[i].id > lastRecv'.id ]_vars

\* Frame 1 was received, frame 2 was taken back by the driver when it pushed
\* frame 3, and frame 3 was received.
C27_Witness == lastRecv.id = 3 /\ dropped = {2}

\* C28: a frame left in the channel when the driver has returned and closed
\* it is what the next receive returns; the end of the stream is reported only
\* by a receive that finds the closed channel empty; after that no frame is
\* received; and nothing is sent into the closed channel.
C28_DrainThenEndOfStream ==
    [][ /\ (closed /\ Len(slot) > 0 /\ mode = "stream" /\ ~eos) =>
               (ENABLED Pop /\ ~ENABLED PopClosed)
        /\ (eos' /\ ~eos) => (closed /\ Len(slot) = 0)
        /\ eos => (lastRecv' = lastRecv /\ eos')
        /\ closed => (closed' /\ pc = "done" /\ Len(slot') <= Len(slot)) ]_vars

\* The driver has returned and closed the channel while a frame waits in it
\* for a consumer that has received frames before.
C28_Witness ==
    closed /\ pc = "done" /\ Len(slot) = 1 /\ mode = "stream" /\ ~eos /\ lastRecv # NoFrame

\* C26: a fetch succeeds only when the delegate delivered a frame since the
\* fetch before; the frame it returns is the one delivered last before
\* GetFrame; and no byte of that frame was returned by the fetch before.
C26_LatestFrameOnce ==
    /\ hold.pc \in {"GoBytes", "copied"} => hold.got > hold.prev
    /\ hold.pc = "copied" =>
          /\ {hold.data[i] : i \in 1..hold.size} = {hold.got}
          /\ hold.got \notin hold.last

\* The crop has been computed.
Cropped == crop.step \in {"cropped", "row"}

\* round(a / b) for a >= 0, b > 0.
Round(a, b) == (2 * a + b) \div (2 * b)

Clamp(v, lo, hi) == IF v < lo THEN lo ELSE IF v > hi THEN hi ELSE v

\* C23: the crop of a source exceeding the bounds is
\* round(h * maxW / maxH) x h, the width clamped to [1, w], when
\* w / h > maxW / maxH, and w x round(w * maxH / maxW), the height clamped to
\* [1, h], otherwise.
C23_CropSizeRounded ==
    Cropped =>
        IF crop.w * cifHeight > crop.h * cifWidth
        THEN /\ crop.rect.w = Clamp(Round(crop.h * cifWidth, cifHeight), 1, crop.w)
             /\ crop.rect.h = crop.h
        ELSE /\ crop.rect.h = Clamp(Round(crop.w * cifHeight, cifWidth), 1, crop.h)
             /\ crop.rect.w = crop.w

\* C24: the crop is centered with floor((w - cropW) / 2) and
\* floor((h - cropH) / 2), one of the offsets is 0, and the crop lies inside
\* the source.
C24_CropCentered ==
    Cropped =>
        /\ crop.rect.x0 = (crop.w - crop.rect.w) \div 2
        /\ crop.rect.y0 = (crop.h - crop.rect.h) \div 2
        /\ crop.rect.x0 = 0 \/ crop.rect.y0 = 0
        /\ crop.rect.x0 + crop.rect.w <= crop.w
        /\ crop.rect.y0 + crop.rect.h <= crop.h

\* A source wider than the bounds' aspect was cropped left and right.
C24_Witness ==
    Cropped /\ crop.backend = "linux" /\ crop.rect.x0 > 0 /\ crop.rect.w < crop.w

\* The source pixel <<sy, sx>> of destination pixel (crop.dy, dx) by the
\* nearest-sample rule, before any clamp.
NearestSample(dx) ==
    << crop.rect.y0 + ((crop.dy * crop.rect.h) \div cifHeight),
       crop.rect.x0 + ((dx * crop.rect.w) \div cifWidth) >>

\* C25: every destination pixel (dx, dy) is a copy of the bytes of the source
\* pixel at sx = cropX0 + floor(dx * cropW / dstW),
\* sy = cropY0 + floor(dy * cropH / dstH).
C25_NearestSampleCopied ==
    (crop.step = "row" /\ crop.backend \in {"linux", "windows"}) =>
        \A dx \in 0..(cifWidth - 1) :
            /\ crop.row[dx].at = NearestSample(dx)
            /\ crop.row[dx].from # << >>
            /\ crop.backend = "linux" =>
                  LET i == (NearestSample(dx)[1] * crop.w + NearestSample(dx)[2]) * 3
                  IN  crop.row[dx].from = <<i, i + 1, i + 2>>

\* C29: the sample coordinates satisfy cropX0 <= sx < cropX0 + cropW <= w and
\* cropY0 <= sy < cropY0 + cropH <= h, so neither the clamp to the last
\* column or row nor the index skip of the remap loop takes effect.
C29_SampleInsideCrop ==
    crop.step = "row" =>
        \A dx \in 0..(cifWidth - 1) :
            LET s == NearestSample(dx)
            IN  /\ crop.rect.y0 <= s[1]
                /\ s[1] < crop.rect.y0 + crop.rect.h
                /\ crop.rect.y0 + crop.rect.h <= crop.h
                /\ crop.rect.x0 <= s[2]
                /\ s[2] < crop.rect.x0 + crop.rect.w
                /\ crop.rect.x0 + crop.rect.w <= crop.w
                /\ crop.row[dx].at = s
                /\ crop.row[dx].from # << >>

\* The normalization wrote destination pixel p of the frame from the raw
\* buffer: no break or continue left it as it was.
PixelWritten(p) ==
    CASE job.backend = "linux" ->
           convertOffsets(Len(job.src), job.fmt, job.w, job.h, job.stride,
                          p[1], p[2]) # << >>
      [] job.backend = "windows" ->
           LET s == winSourcePixel(job.w, job.h, res.w, res.h, p[1], p[2])
           IN  winOffsets(job.fmt, job.w, job.h, job.stride, s[1], s[2]).use # << >>
      [] OTHER -> p \in DOMAIN res.px

\* C30: every output pixel of a frame delivered as a real frame was written
\* during its cycle from the current raw buffer, for every width, height and
\* stride the normalizer accepts.
C30_EveryPixelWritten ==
    (pc = "send_try" /\ cur.kind = "real" /\ job.fmt # "OTHER") =>
        \A p \in Pixels(res.w, res.h) : PixelWritten(p)

====
